---- MODULE Spec2Model ----
(***************************************************************************)
(* State-machine model of the photo gallery front end                      *)
(* (photo_gallery_frontend/src/App.js): the photo list, the filter engine, *)
(* the modal viewer with its keyboard listener, favorites and the          *)
(* add-image form.  One action is one browser event: the handler, the      *)
(* re-render it causes and the effects of that render, run until the       *)
(* component has settled.  The standalone viewer component                 *)
(* (components/ImageModal.js), which App does not render, is modelled next  *)
(* to it with a state of its own.                                          *)
(***************************************************************************)
EXTENDS Integers, Sequences, FiniteSets, TLC

VARIABLES
    photos,            \* useState: the gallery list, newest client item first
    query,             \* useState: text of the search box
    selectedTags,      \* useState: Set of tag strings
    activeIndex,       \* useState: number | null
    favoriteIds,       \* useState: Set of id strings, in insertion order
    favoritesOnly,     \* useState: boolean
    addUrl,            \* useState: text of the URL input
    addTitle,          \* useState: text of the title input
    addFile,           \* useState: File | null, <<>> is null and <<f>> a File
    addStatus,         \* useState: {kind, message}
    clientObjectUrls,  \* clientObjectUrlsRef.current
    revokedObjectUrls, \* browser: object URLs passed to URL.revokeObjectURL
    keydownListeners,  \* browser: capture keydown listeners of the document,
                       \* each the filteredPhotos.length its closure captured
    kbCleanup,         \* React: cleanup returned by the keyboard effect's last run
    mounted,           \* React: App is mounted
    localStorage,      \* browser: the entry under FAVORITES_STORAGE_KEY,
                       \* <<>> is no entry and <<s>> the string s
    storageFails,      \* browser: access to window.localStorage throws
    navStart,          \* history: index at the start of the current navigation run
    navSteps,          \* history: signed number of next (+) / prev (-) in the run
    startup,           \* history: what the mount found in storage and left there
    favRun,            \* history: the current run of toggles of one favorite
    imageModal         \* ImageModal.js: a mounted ImageModal and its document

vars == <<photos, query, selectedTags, activeIndex, favoriteIds, favoritesOnly,
          addUrl, addTitle, addFile, addStatus, clientObjectUrls,
          revokedObjectUrls, keydownListeners, kbCleanup, mounted,
          localStorage, storageFails, navStart, navSteps, startup, favRun,
          imageModal>>

(***************************************************************************)
(* Bounds of the model.                                                    *)
(***************************************************************************)
SeedSize == 5      \* number of PHOTO_SEED records the gallery starts with
MaxAdded == 1      \* client-added images per session
MaxSteps == 9      \* length of a run of consecutive next / prev operations
MaxToggles == 3    \* length of a run of toggles of one favorite

\* JavaScript null of activeIndex; no index arithmetic of the code yields it.
null == -2

(***************************************************************************)
(* JavaScript strings.  A string is a TLA+ string; characters are the      *)
(* one-character substrings.                                               *)
(***************************************************************************)
Min(a, b) == IF a <= b THEN a ELSE b
Max(a, b) == IF a >= b THEN a ELSE b

LowerOf ==
    "A" :> "a" @@ "B" :> "b" @@ "C" :> "c" @@ "D" :> "d" @@ "E" :> "e" @@
    "F" :> "f" @@ "G" :> "g" @@ "H" :> "h" @@ "I" :> "i" @@ "J" :> "j" @@
    "K" :> "k" @@ "L" :> "l" @@ "M" :> "m" @@ "N" :> "n" @@ "O" :> "o" @@
    "P" :> "p" @@ "Q" :> "q" @@ "R" :> "r" @@ "S" :> "s" @@ "T" :> "t" @@
    "U" :> "u" @@ "V" :> "v" @@ "W" :> "w" @@ "X" :> "x" @@ "Y" :> "y" @@
    "Z" :> "z"

WhiteSpace == {" ", "\t", "\n"}

\* the characters of s from position i on, each replaced as table says
RECURSIVE MapFrom(_, _, _)
MapFrom(table, s, i) ==
    LET dom == DOMAIN table
        hits == {j \in i..Len(s) : SubSeq(s, j, j) \in dom}
    IN  IF hits = {} THEN SubSeq(s, i, Len(s))
        ELSE LET j == CHOOSE h \in hits : \A k \in hits : h <= k
             IN  SubSeq(s, i, j - 1) \o table[SubSeq(s, j, j)]
                    \o MapFrom(table, s, j + 1)

toLowerCase(s) == MapFrom(LowerOf, s, 1)

\* positions of s that hold no white space
Inked(s) == {i \in 1..Len(s) : SubSeq(s, i, i) \notin WhiteSpace}

trimStart(s) ==
    LET inked == Inked(s)
    IN  IF inked = {} THEN ""
        ELSE SubSeq(s, CHOOSE i \in inked : \A j \in inked : i <= j, Len(s))

trimEnd(s) ==
    LET inked == Inked(s)
    IN  IF inked = {} THEN ""
        ELSE SubSeq(s, 1, CHOOSE i \in inked : \A j \in inked : i >= j)

\* variant: only the leading white space is removed
trimLeading(s) == trimStart(s)

trim(s) == trimEnd(trimStart(s))

\* String.prototype.includes
includes(s, sub) ==
    \E i \in 1..(Len(s) - Len(sub) + 1) : SubSeq(s, i, i + Len(sub) - 1) = sub

\* String.prototype.startsWith
startsWith(s, prefix) ==
    Len(s) >= Len(prefix) /\ SubSeq(s, 1, Len(prefix)) = prefix

\* Array.prototype.join on an array of strings
RECURSIVE join(_, _)
join(arr, sep) ==
    IF arr = <<>> THEN ""
    ELSE IF Len(arr) = 1 THEN arr[1]
    ELSE arr[1] \o sep \o join(Tail(arr), sep)

(***************************************************************************)
(* Photo records.  metadata is the list of the object's entries in         *)
(* insertion order (Object.entries).  The em dash of two captions is       *)
(* written "-".                                                            *)
(***************************************************************************)
PHOTO_SEED == <<
    [id |-> "sea", title |-> "Sea",
     caption |-> "Calm ocean tones with soft horizon light.",
     photographer |-> "Kavia Studio",
     tags |-> <<"Nature", "Water", "Coast">>,
     metadata |-> <<<<"location", "Coastline">>, <<"camera", "KaviaCam X1">>, <<"lens", "35mm">>, <<"year", "2024">>>>],
    [id |-> "forest", title |-> "Forest",
     caption |-> "Evergreen canopy with filtered morning sun.",
     photographer |-> "Kavia Studio",
     tags |-> <<"Nature", "Trees", "Green">>,
     metadata |-> <<<<"location", "National Park">>, <<"camera", "KaviaCam X1">>, <<"year", "2024">>>>],
    [id |-> "city", title |-> "City",
     caption |-> "Clean lines and depth-an urban study in contrast.",
     photographer |-> "Kavia Studio",
     tags |-> <<"Urban", "Architecture">>,
     metadata |-> <<<<"location", "Downtown">>, <<"camera", "KaviaCam X2">>, <<"lens", "24mm">>, <<"year", "2023">>>>],
    [id |-> "mountain", title |-> "Mountain",
     caption |-> "Ridgelines and clouds-high altitude serenity.",
     photographer |-> "Kavia Studio",
     tags |-> <<"Nature", "Mountains", "Adventure">>,
     metadata |-> <<<<"location", "Highlands">>, <<"camera", "KaviaCam X2">>, <<"year", "2023">>>>],
    [id |-> "desert", title |-> "Desert",
     caption |-> "Dunes shaped by wind with warm, golden shadows.",
     photographer |-> "Kavia Studio",
     tags |-> <<"Nature", "Desert", "Sand">>,
     metadata |-> <<<<"location", "Dune Field">>, <<"camera", "KaviaCam X1">>, <<"lens", "50mm">>, <<"year", "2022">>>>],
    [id |-> "aurora", title |-> "Aurora",
     caption |-> "Night sky ribbons with a gentle glow.",
     photographer |-> "Kavia Studio",
     tags |-> <<"Night", "Nature", "Sky">>,
     metadata |-> <<<<"location", "Northern Lights">>, <<"camera", "KaviaCam X3">>, <<"year", "2024">>>>],
    [id |-> "flowers", title |-> "Flowers",
     caption |-> "Bright petals with soft background bokeh.",
     photographer |-> "Kavia Studio",
     tags |-> <<"Nature", "Plants", "Macro">>,
     metadata |-> <<<<"location", "Botanical Garden">>, <<"camera", "KaviaCam X2">>, <<"lens", "85mm">>>>],
    [id |-> "waterfall", title |-> "Waterfall",
     caption |-> "A smooth cascade framed by dark stone.",
     photographer |-> "Kavia Studio",
     tags |-> <<"Nature", "Water", "Adventure">>,
     metadata |-> <<<<"location", "River Gorge">>, <<"camera", "KaviaCam X1">>, <<"year", "2022">>>>],
    [id |-> "architecture", title |-> "Architecture",
     caption |-> "Modern geometry and repeating patterns in light.",
     photographer |-> "Kavia Studio",
     tags |-> <<"Architecture", "Design", "Urban">>,
     metadata |-> <<<<"location", "Civic Center">>, <<"camera", "KaviaCam X3">>, <<"lens", "24mm">>>>],
    [id |-> "night", title |-> "Night",
     caption |-> "Neon ambience-low light with crisp highlights.",
     photographer |-> "Kavia Studio",
     tags |-> <<"Night", "Urban", "Neon">>,
     metadata |-> <<<<"location", "Night Market">>, <<"camera", "KaviaCam X3">>, <<"year", "2023">>>>],
    [id |-> "lake", title |-> "Lake",
     caption |-> "Mirror reflections with a still, quiet mood.",
     photographer |-> "Kavia Studio",
     tags |-> <<"Nature", "Water", "Calm">>,
     metadata |-> <<<<"location", "Alpine Lake">>, <<"camera", "KaviaCam X2">>, <<"year", "2024">>>>],
    [id |-> "canyon", title |-> "Canyon",
     caption |-> "Layered stone textures-time etched into color.",
     photographer |-> "Kavia Studio",
     tags |-> <<"Nature", "Desert", "Geology">>,
     metadata |-> <<<<"location", "Canyon Rim">>, <<"camera", "KaviaCam X1">>, <<"lens", "35mm">>, <<"year", "2022">>>>]
>>

\* encodeURIComponent: unreserved characters are kept, the others escaped.
Escaped == ":" :> "%3A" @@ "/" :> "%2F" @@ " " :> "%20" @@ "?" :> "%3F"

encodeURIComponent(s) == MapFrom(Escaped, s, 1)

makePhotoUrl(seed, width, height) ==
    "https://picsum.photos/seed/" \o encodeURIComponent(seed) \o "/"
        \o ToString(width) \o "/" \o ToString(height)

heights == <<900, 820, 760, 980, 840, 920>>

\* Math.round(h * 1.2)
RoundTimes12(h) == (h * 12 + 5) \div 10

\* The gallery items built once at startup, from the first SeedSize records.
seededPhotos ==
    [idx \in 1..SeedSize |->
        LET p == PHOTO_SEED[idx]
            h == heights[((idx - 1) % Len(heights)) + 1]
        IN [id |-> p.id, title |-> p.title, caption |-> p.caption,
            photographer |-> p.photographer, tags |-> p.tags,
            metadata |-> p.metadata,
            thumbUrl |-> makePhotoUrl(p.id, 900, h),
            fullUrl |-> makePhotoUrl(p.id, 1800, RoundTimes12(h)),
            _clientOnly |-> FALSE]]

\* title || fallback
OrElse(s, fallback) == IF s # "" THEN s ELSE fallback

\* stamp stands for Date.now() and the random suffix of the id: a number the
\* session has not used before.
makeClientPhoto(title, url, source, stamp) ==
    [id |-> "client:" \o ToString(stamp) \o ":" \o ToString(stamp),
     title |-> OrElse(trim(OrElse(title, "User image")), "User image"),
     caption |-> IF source = "file" THEN "Added from local file (client-only)."
                 ELSE "Added from URL (client-only).",
     photographer |-> "You",
     tags |-> <<"User">>,
     metadata |-> << <<"source", IF source = "file" THEN "local file (in-memory)"
                                 ELSE "url">>,
                     <<"added", "t" \o ToString(stamp)>> >>,
     thumbUrl |-> url,
     fullUrl |-> url,
     _clientOnly |-> TRUE]

(***************************************************************************)
(* normalizeHttpUrl.  The result null is written "": the caller only tests *)
(* the result for truthiness and url.toString() is never empty.  The URLs  *)
(* modelled have a scheme, a host and a path: no user info, port, query or *)
(* fragment.                                                               *)
(***************************************************************************)
SchemeChars ==
    DOMAIN LowerOf \cup {LowerOf[c] : c \in DOMAIN LowerOf} \cup {"+", "-", "."}

ForbiddenHostChars == {" ", "<", ">", "^", "|"}

PathEscapes == " " :> "%20"

\* position of the first sub-string c of s, 0 when there is none
IndexOf(s, c) ==
    LET hits == {i \in 1..Len(s) : SubSeq(s, i, i + Len(c) - 1) = c}
    IN  IF hits = {} THEN 0
        ELSE CHOOSE i \in hits : \A j \in hits : i <= j

\* new URL(text).toString() with the protocol it has; "" when new URL throws
ParseUrl(text) ==
    LET colon == IndexOf(text, ":")
    IN  IF \/ colon <= 1
           \/ SubSeq(text, 1, 1) \in {"+", "-", "."}
           \/ \E i \in 1..(colon - 1) : SubSeq(text, i, i) \notin SchemeChars
        THEN [protocol |-> "", href |-> ""]
        ELSE LET protocol == toLowerCase(SubSeq(text, 1, colon))
                 rest == SubSeq(text, colon + 1, Len(text))
                 slashes == {i \in 1..Len(rest) :
                               \A j \in 1..i : SubSeq(rest, j, j) \in {"/", "\\"}}
                 hostPath == SubSeq(rest, Cardinality(slashes) + 1, Len(rest))
                 slash == IndexOf(hostPath, "/")
                 host == toLowerCase(IF slash = 0 THEN hostPath
                                     ELSE SubSeq(hostPath, 1, slash - 1))
                 path == IF slash = 0 THEN "/"
                         ELSE MapFrom(PathEscapes, hostPath, slash)
             IN  IF protocol \notin {"http:", "https:", "ftp:", "ws:", "wss:", "file:"}
                 THEN [protocol |-> protocol, href |-> protocol \o rest]
                 ELSE IF host = "" \/ \E i \in 1..Len(host) :
                                        SubSeq(host, i, i) \in ForbiddenHostChars
                 THEN [protocol |-> "", href |-> ""]
                 ELSE [protocol |-> protocol, href |-> protocol \o "//" \o host \o path]

\* variant: the protocol is not tested
normalizeHttpUrlAnyProtocol(value) == ParseUrl(trim(value)).href

normalizeHttpUrl(value) ==
    LET url == ParseUrl(trim(value))
    IN  IF url.href = "" THEN ""
        ELSE IF url.protocol # "http:" /\ url.protocol # "https:" THEN ""
        ELSE url.href

(***************************************************************************)
(* JSON texts of the favorites entry.  The grammar modelled is: a string    *)
(* with the escapes \" and \\, an integer, true, false, null, the object {} *)
(* and an array of such values; any other text is a SyntaxError.           *)
(***************************************************************************)
JsonWhiteSpace == {" ", "\t", "\n", "\r"}

JsonEscapes == "\"" :> "\\\"" @@ "\\" :> "\\\\"

Digits == {"0", "1", "2", "3", "4", "5", "6", "7", "8", "9"}

\* JSON.stringify of an array of strings
JSONstringify(arr) ==
    "[" \o join([i \in 1..Len(arr) |->
                    "\"" \o MapFrom(JsonEscapes, arr[i], 1) \o "\""], ",") \o "]"

\* positions of s that hold no JSON white space
JsonInked(s) == {i \in 1..Len(s) : SubSeq(s, i, i) \notin JsonWhiteSpace}

\* s without the white space JSON allows around a value
JsonTrim(s) ==
    IF JsonInked(s) = {} THEN ""
    ELSE SubSeq(s, CHOOSE i \in JsonInked(s) : \A j \in JsonInked(s) : i <= j,
                   CHOOSE i \in JsonInked(s) : \A j \in JsonInked(s) : i >= j)

\* number of backslashes that end right before position j
BackslashRun(s, j) ==
    Cardinality({k \in 1..(j - 1) : \A m \in k..(j - 1) : SubSeq(s, m, m) = "\\"})

\* position j holds a quote that is not escaped
IsQuoteAt(s, j) == SubSeq(s, j, j) = "\"" /\ BackslashRun(s, j) % 2 = 0

\* position i lies in a string literal of s
InsideString(s, i) == Cardinality({j \in 1..(i - 1) : IsQuoteAt(s, j)}) % 2 = 1

IsJsonNumber(t) ==
    LET d == IF startsWith(t, "-") THEN SubSeq(t, 2, Len(t)) ELSE t
    IN  /\ Len(d) >= 1
        /\ \A i \in 1..Len(d) : SubSeq(d, i, i) \in Digits
        /\ Len(d) = 1 \/ SubSeq(d, 1, 1) # "0"

IsJsonString(t) ==
    /\ Len(t) >= 2
    /\ SubSeq(t, 1, 1) = "\""
    /\ IsQuoteAt(t, Len(t))
    /\ \A i \in 2..(Len(t) - 1) :
        /\ ~IsQuoteAt(t, i)
        /\ SubSeq(t, i, i) \notin {"\t", "\n", "\r"}
        /\ (SubSeq(t, i, i) = "\\" /\ BackslashRun(t, i) % 2 = 0)
              => SubSeq(t, i + 1, i + 1) \in {"\"", "\\"}

\* the characters of the string literal t from position i on, escapes resolved
RECURSIVE Unescape(_, _)
Unescape(t, i) ==
    IF i >= Len(t) THEN ""
    ELSE (IF SubSeq(t, i, i) = "\\" /\ BackslashRun(t, i) % 2 = 0 THEN ""
          ELSE SubSeq(t, i, i)) \o Unescape(t, i + 1)

\* a value that is no array: its kind and String(value)
JsonScalar(t) ==
    IF t \in {"null", "true", "false"} THEN [kind |-> "literal", text |-> t]
    ELSE IF IsJsonNumber(t)
    THEN [kind |-> "number", text |-> IF t = "-0" THEN "0" ELSE t]
    ELSE IF IsJsonString(t) THEN [kind |-> "string", text |-> Unescape(t, 2)]
    ELSE IF t = "{}" THEN [kind |-> "object", text |-> "[object Object]"]
    ELSE [kind |-> "SyntaxError", text |-> ""]

\* JSON.parse followed, for an array, by .map((v) => String(v)); kind
\* "SyntaxError" is the exception JSON.parse throws
JSONparse(text) ==
    LET t == JsonTrim(text)
        body == SubSeq(t, 2, Len(t) - 1)
        commas == {i \in 1..Len(body) :
                     SubSeq(body, i, i) = "," /\ ~InsideString(body, i)}
        n == Cardinality(commas) + 1
        cut(k) == CHOOSE i \in commas : Cardinality({j \in commas : j < i}) = k - 1
        first(k) == IF k = 1 THEN 1 ELSE cut(k - 1) + 1
        last(k) == IF k = n THEN Len(body) ELSE cut(k) - 1
        items == [k \in 1..n |-> JsonScalar(JsonTrim(SubSeq(body, first(k), last(k))))]
    IN  IF Len(t) >= 2 /\ SubSeq(t, 1, 1) = "[" /\ SubSeq(t, Len(t), Len(t)) = "]"
        THEN IF JsonTrim(body) = "" THEN [kind |-> "array", items |-> <<>>]
             ELSE IF \E k \in 1..n : items[k].kind = "SyntaxError"
             THEN [kind |-> "SyntaxError", items |-> <<>>]
             ELSE [kind |-> "array", items |-> [k \in 1..n |-> items[k].text]]
        ELSE [kind |-> JsonScalar(t).kind, items |-> <<>>]

(***************************************************************************)
(* A Set is the sequence of its elements in insertion order.               *)
(***************************************************************************)
\* new Set(arr)
NewSet(arr) ==
    LET kept == {i \in 1..Len(arr) : \A j \in 1..(i - 1) : arr[j] # arr[i]}
    IN  [k \in 1..Cardinality(kept) |->
            arr[CHOOSE i \in kept : Cardinality({j \in kept : j < i}) = k - 1]]

\* Set.prototype.has
has(set, v) == \E i \in 1..Len(set) : set[i] = v

(***************************************************************************)
(* The favorites store.  entry is the stored value (<<>> when there is     *)
(* none), throws says that window.localStorage cannot be used.             *)
(***************************************************************************)
\* variant: a stored value that is no array is taken as the one id it holds
readFavoritesFromStorageAnyValue(entry, throws) ==
    IF throws THEN <<>>
    ELSE IF entry = <<>> \/ entry[1] = "" THEN <<>>
    ELSE LET parsed == JSONparse(entry[1])
         IN  IF parsed.kind = "SyntaxError" THEN <<>>
             ELSE IF parsed.kind # "array" THEN <<JsonScalar(JsonTrim(entry[1])).text>>
             ELSE NewSet(parsed.items)

readFavoritesFromStorage(entry, throws) ==
    IF throws THEN <<>>
    ELSE IF entry = <<>> \/ entry[1] = "" THEN <<>>
    ELSE LET parsed == JSONparse(entry[1])
         IN  IF parsed.kind # "array" THEN <<>>
             ELSE NewSet(parsed.items)

\* variant: an empty set is not written
writeFavoritesToStorageUnlessEmpty(favoritesSet, entry, throws) ==
    IF throws \/ favoritesSet = <<>> THEN entry
    ELSE <<JSONstringify(favoritesSet)>>

\* the entry after writeFavoritesToStorage(favoritesSet)
writeFavoritesToStorage(favoritesSet, entry, throws) ==
    IF throws THEN entry
    ELSE <<JSONstringify(favoritesSet)>>

(***************************************************************************)
(* Derived values of a render (useMemo).                                   *)
(***************************************************************************)
\* the entries of p.metadata as "key:value", joined by a space, lower-cased
metadataTextOf(p) ==
    toLowerCase(join([i \in 1..Len(p.metadata) |->
                        p.metadata[i][1] \o ":" \o p.metadata[i][2]], " "))

tagTextOf(p) == toLowerCase(join(p.tags, " "))

Range(seq) == {seq[i] : i \in 1..Len(seq)}

matchesFavorites(p, hasFavFilter, favs) ==
    IF ~hasFavFilter THEN TRUE ELSE has(favs, p.id)

\* variant: the fields are searched as written, without lower-casing
matchesQueryCaseSensitive(p, hasQuery, q) ==
    IF ~hasQuery THEN TRUE
    ELSE LET fields == SelectSeq(<<p.title, p.caption, p.photographer, p.id,
                                   tagTextOf(p), metadataTextOf(p)>>,
                                 LAMBDA f : f # "")
         IN \E i \in 1..Len(fields) : includes(fields[i], q)

matchesQuery(p, hasQuery, q) ==
    IF ~hasQuery THEN TRUE
    ELSE LET fields == SelectSeq(<<p.title, p.caption, p.photographer, p.id,
                                   tagTextOf(p), metadataTextOf(p)>>,
                                 LAMBDA f : f # "")
         IN \E i \in 1..Len(fields) : includes(toLowerCase(fields[i]), q)

\* variant: a photo must carry every selected tag
matchesTagsAll(p, hasTagFilter, tags) ==
    IF ~hasTagFilter THEN TRUE
    ELSE tags \subseteq {p.tags[i] : i \in 1..Len(p.tags)}

\* variant: tags are compared without regard to case
matchesTagsIgnoreCase(p, hasTagFilter, tags) ==
    IF ~hasTagFilter THEN TRUE
    ELSE \E i \in 1..Len(p.tags) :
            toLowerCase(p.tags[i]) \in {toLowerCase(t) : t \in tags}

matchesTags(p, hasTagFilter, tags) ==
    IF ~hasTagFilter THEN TRUE
    ELSE \E i \in 1..Len(p.tags) : p.tags[i] \in tags

\* variant: the favorites filter is on whenever there are favorites
FilterPhotosFavoritesAlways(ps, qry, tags, favOnly, favs) ==
    LET q == toLowerCase(trim(qry))
        hasQuery == q # ""
        hasTagFilter == tags # {}
        hasFavFilter == favs # <<>>
    IN  IF ~hasQuery /\ ~hasTagFilter /\ ~hasFavFilter THEN ps
        ELSE SelectSeq(ps, LAMBDA p :
                /\ matchesFavorites(p, hasFavFilter, favs)
                /\ matchesQuery(p, hasQuery, q)
                /\ matchesTags(p, hasTagFilter, tags))

\* variant: the tag match is OR-ed with the other two predicates
FilterPhotosTagsOr(ps, qry, tags, favOnly, favs) ==
    LET q == toLowerCase(trim(qry))
        hasQuery == q # ""
        hasTagFilter == tags # {}
        hasFavFilter == favOnly
    IN  IF ~hasQuery /\ ~hasTagFilter /\ ~hasFavFilter THEN ps
        ELSE SelectSeq(ps, LAMBDA p :
                \/ /\ matchesFavorites(p, hasFavFilter, favs)
                   /\ matchesQuery(p, hasQuery, q)
                \/ matchesTags(p, hasTagFilter, tags))

FilterPhotos(ps, qry, tags, favOnly, favs) ==
    LET q == toLowerCase(trim(qry))
        hasQuery == q # ""
        hasTagFilter == tags # {}
        hasFavFilter == favOnly
    IN  IF ~hasQuery /\ ~hasTagFilter /\ ~hasFavFilter THEN ps
        ELSE SelectSeq(ps, LAMBDA p :
                /\ matchesFavorites(p, hasFavFilter, favs)
                /\ matchesQuery(p, hasQuery, q)
                /\ matchesTags(p, hasTagFilter, tags))

filteredPhotos ==
    FilterPhotos(photos, query, selectedTags, favoritesOnly, favoriteIds)

\* the tags of all records; the chips show them sorted
availableTags == UNION {Range(photos[i].tags) : i \in 1..Len(photos)}

modalOpen == activeIndex # null

favoritesCount == Len(favoriteIds)

activePhoto ==
    IF modalOpen /\ activeIndex + 1 \in 1..Len(filteredPhotos)
    THEN <<filteredPhotos[activeIndex + 1]>> ELSE <<>>

(***************************************************************************)
(* Effects.  A commit runs the cleanups of the effects whose dependencies  *)
(* changed, then those effects; a state update made by an effect causes    *)
(* another render and commit.                                              *)
(***************************************************************************)
\* document.removeEventListener: drops the listener, if it is registered
RECURSIVE removeEventListener(_, _)
removeEventListener(listeners, fn) ==
    IF listeners = <<>> THEN <<>>
    ELSE IF Head(listeners) = fn THEN Tail(listeners)
    ELSE <<Head(listeners)>> \o removeEventListener(Tail(listeners), fn)

\* variant: the range effect does not depend on the length of the list
rangeEffectDepsNoLength(len, idx) == <<idx # null, idx>>

\* variant: the keyboard effect runs at mount only
keyboardEffectDepsEmpty(len, idx) == <<>>

\* dependency lists of the two effects on the viewer
rangeEffectDeps(len, idx) == <<len, idx # null, idx>>
keyboardEffectDeps(len, idx) == <<idx # null, len>>

\* variant: the effect leaves the viewer as it is
rangeEffectNever(len, idx) == idx

\* variant: the viewer is also closed at the last index of the list
rangeEffectClosesAtLast(len, idx) ==
    IF idx = null THEN idx
    ELSE IF idx >= len - 1 THEN null
    ELSE idx

\* variant: the range test is off by one
rangeEffectOffByOne(len, idx) ==
    IF idx = null THEN idx
    ELSE IF idx > len THEN null
    ELSE idx

\* useEffect "close if out of range": the activeIndex it leaves
rangeEffect(len, idx) ==
    IF idx = null THEN idx
    ELSE IF idx >= len THEN null
    ELSE idx

\* The render with (len, idx) that follows the render with (prevLen, prevIdx).
RECURSIVE Commit(_, _, _, _, _, _)
Commit(prevLen, prevIdx, len, idx, listeners, cleanup) ==
    LET kbRuns == keyboardEffectDeps(len, idx) # keyboardEffectDeps(prevLen, prevIdx)
        rangeRuns == rangeEffectDeps(len, idx) # rangeEffectDeps(prevLen, prevIdx)
        cleaned == IF kbRuns /\ cleanup # <<>>
                   THEN removeEventListener(listeners, cleanup[1])
                   ELSE listeners
        idx2 == IF rangeRuns THEN rangeEffect(len, idx) ELSE idx
        listeners2 == IF kbRuns /\ idx # null THEN Append(cleaned, len) ELSE cleaned
        cleanup2 == IF ~kbRuns THEN cleanup
                    ELSE IF idx # null THEN <<len>> ELSE <<>>
    IN  IF idx2 = idx
        THEN [activeIndex |-> idx, listeners |-> listeners2, cleanup |-> cleanup2]
        ELSE Commit(len, idx, len, idx2, listeners2, cleanup2)

\* The render after a handler that left activeIndex = idx and a filtered list
\* of length len, the list of the last render having had length prevLen.
Settle(prevLen, idx, len) ==
    \E r \in {Commit(prevLen, activeIndex, len, idx, keydownListeners, kbCleanup)} :
        /\ activeIndex' = r.activeIndex
        /\ keydownListeners' = r.listeners
        /\ kbCleanup' = r.cleanup

\* the render after a handler that changed the filter or the photo list
Rerender(idx, len) ==
    \E prevLen \in {Len(filteredPhotos)}, newLen \in {len} :
        Settle(prevLen, idx, newLen)

filterVars == <<photos, query, selectedTags, favoriteIds, favoritesOnly>>
formVars == <<addUrl, addTitle, addFile, addStatus>>
urlVars == <<clientObjectUrls, revokedObjectUrls>>
storageVars == <<localStorage, storageFails>>
\* the history variables, and the ImageModal that no event of App reaches
histVars == <<navStart, navSteps, startup, favRun, imageModal>>

(***************************************************************************)
(* Handlers of the viewer.                                                 *)
(***************************************************************************)
\* variants: no clamp at the ends
goPrevUpdateNoClamp(prev) == IF prev = null THEN prev ELSE prev - 1

goNextUpdateNoClamp(prev, len) == IF prev = null THEN prev ELSE prev + 1

goPrevUpdate(prev) == IF prev = null THEN prev ELSE Max(prev - 1, 0)

goNextUpdate(prev, len) == IF prev = null THEN prev ELSE Min(prev + 1, len - 1)

openModalAt(index) ==
    /\ mounted
    /\ UNCHANGED <<filterVars, formVars, urlVars, mounted, storageVars>>
    /\ (\E len \in {Len(filteredPhotos)} : Settle(len, index, len))

closeModal ==
    /\ mounted
    /\ modalOpen
    /\ UNCHANGED <<filterVars, formVars, urlVars, mounted, storageVars>>
    /\ (\E len \in {Len(filteredPhotos)} : Settle(len, null, len))

goPrev ==
    /\ mounted
    /\ UNCHANGED <<filterVars, formVars, urlVars, mounted, storageVars>>
    /\ (\E len \in {Len(filteredPhotos)} :
            Settle(len, goPrevUpdate(activeIndex), len))

goNext ==
    /\ mounted
    /\ UNCHANGED <<filterVars, formVars, urlVars, mounted, storageVars>>
    /\ (\E len \in {Len(filteredPhotos)} :
            Settle(len, goNextUpdate(activeIndex, len), len))

(***************************************************************************)
(* The keyboard listener.  A target is the node the event is dispatched    *)
(* to: node says whether it is an HTMLElement.                             *)
(***************************************************************************)
isTypingContext(target) ==
    IF target.node # "HTMLElement" THEN FALSE
    ELSE LET tag == toLowerCase(target.tagName)
         IN  \/ tag = "input"
             \/ tag = "textarea"
             \/ tag = "select"
             \/ target.isContentEditable = TRUE

\* variant: the typing test comes before the Escape test
onKeyDownTypingFirst(key, target, len, prev) ==
    LET typing == isTypingContext(target)
    IN  IF typing THEN prev
        ELSE IF key = "Escape" THEN null
        ELSE IF key = "ArrowRight" THEN goNextUpdate(prev, len)
        ELSE IF key = "ArrowLeft" THEN goPrevUpdate(prev)
        ELSE prev

\* onKeyDown of a listener whose closure holds len: the activeIndex it leaves
onKeyDown(key, target, len, prev) ==
    LET typing == isTypingContext(target)
    IN  IF key = "Escape" THEN null
        ELSE IF typing THEN prev
        ELSE IF key = "ArrowRight" THEN goNextUpdate(prev, len)
        ELSE IF key = "ArrowLeft" THEN goPrevUpdate(prev)
        ELSE prev

\* the event reaches every registered listener, in registration order
RECURSIVE dispatchKeydown(_, _, _, _)
dispatchKeydown(listeners, key, target, prev) ==
    IF listeners = <<>> THEN prev
    ELSE dispatchKeydown(Tail(listeners), key, target,
                         onKeyDown(key, target, Head(listeners), prev))

keydown(key, target) ==
    /\ mounted
    /\ UNCHANGED <<filterVars, formVars, urlVars, mounted, storageVars>>
    /\ (\E len \in {Len(filteredPhotos)} :
            Settle(len, dispatchKeydown(keydownListeners, key, target, activeIndex),
                   len))

(***************************************************************************)
(* Handlers of the filter controls and of favorites.                       *)
(***************************************************************************)
setQuery(value) ==
    /\ mounted
    /\ query' = value
    /\ UNCHANGED <<photos, selectedTags, favoriteIds, favoritesOnly,
                   formVars, urlVars, mounted, storageVars>>
    /\ Rerender(activeIndex,
                Len(FilterPhotos(photos, value, selectedTags, favoritesOnly, favoriteIds)))

\* variant: a tag that is selected replaces the selection
toggleTagUpdateSingle(prev, tag) == IF tag \in prev THEN prev \ {tag} ELSE {tag}

toggleTagUpdate(prev, tag) == IF tag \in prev THEN prev \ {tag} ELSE prev \cup {tag}

toggleTag(tag) ==
    /\ mounted
    /\ selectedTags' = toggleTagUpdate(selectedTags, tag)
    /\ UNCHANGED <<photos, query, favoriteIds, favoritesOnly,
                   formVars, urlVars, mounted, storageVars>>
    /\ Rerender(activeIndex,
                Len(FilterPhotos(photos, query, toggleTagUpdate(selectedTags, tag),
                                favoritesOnly, favoriteIds)))

clearTags ==
    /\ mounted
    /\ selectedTags # {}
    /\ selectedTags' = {}
    /\ UNCHANGED <<photos, query, favoriteIds, favoritesOnly,
                   formVars, urlVars, mounted, storageVars>>
    /\ Rerender(activeIndex,
                Len(FilterPhotos(photos, query, {}, favoritesOnly, favoriteIds)))

toggleFavoritesOnly ==
    /\ mounted
    /\ favoritesOnly' = ~favoritesOnly
    /\ UNCHANGED <<photos, query, selectedTags, favoriteIds,
                   formVars, urlVars, mounted, storageVars>>
    /\ Rerender(activeIndex,
                Len(FilterPhotos(photos, query, selectedTags, ~favoritesOnly, favoriteIds)))

\* variant: an id is added and never removed
toggleFavoriteUpdateAddOnly(prev, id) ==
    IF has(prev, id) THEN prev ELSE Append(prev, id)

toggleFavoriteUpdate(prev, id) ==
    IF has(prev, id) THEN SelectSeq(prev, LAMBDA x : x # id) ELSE Append(prev, id)

\* variant: the toggle is dropped when the storage cannot be written
toggleFavoriteUnlessStorageFails(photoId) ==
    \E next \in {IF storageFails THEN favoriteIds
                 ELSE toggleFavoriteUpdate(favoriteIds, photoId)} :
        /\ mounted
        /\ favoriteIds' = next
        /\ localStorage' = writeFavoritesToStorage(next, localStorage, storageFails)
        /\ UNCHANGED <<photos, query, selectedTags, favoritesOnly,
                       formVars, urlVars, mounted, storageFails>>
        /\ Rerender(activeIndex,
                    Len(FilterPhotos(photos, query, selectedTags, favoritesOnly, next)))

\* the handler, the render and the effect that keeps the storage in sync
toggleFavorite(photoId) ==
    \E next \in {toggleFavoriteUpdate(favoriteIds, photoId)} :
        /\ mounted
        /\ favoriteIds' = next
        /\ localStorage' = writeFavoritesToStorage(next, localStorage, storageFails)
        /\ UNCHANGED <<photos, query, selectedTags, favoritesOnly,
                       formVars, urlVars, mounted, storageFails>>
        /\ Rerender(activeIndex,
                    Len(FilterPhotos(photos, query, selectedTags, favoritesOnly, next)))

\* String(activePhoto?.id) of the heart button of the viewer
activePhotoId == IF activePhoto = <<>> THEN "undefined" ELSE activePhoto[1].id

(***************************************************************************)
(* The add-image form.                                                     *)
(***************************************************************************)
clientCount == Len(photos) - SeedSize

idle == [kind |-> "idle", message |-> ""]

\* variant: the new record is put last
prependPhotoLast(prev, item) == prev \o <<item>>

\* setPhotos((prev) => [item, ...prev])
prependPhoto(prev, item) == <<item>> \o prev

\* variant: the tag selected by an add is written in lower case
selectUserTagLowerCase(prev) == prev \cup {"user"}

\* variant: an add leaves the selection as it is
selectUserTagNever(prev) == prev

\* variant: "User" becomes the only selected tag
selectUserTagOnly(prev) == {"User"}

\* setSelectedTags updater of an add: next.add("User")
selectUserTag(prev) == prev \cup {"User"}

addImageFromUrl ==
    LET normalized == normalizeHttpUrl(addUrl)
        title == OrElse(trim(addTitle), "Image from URL")
        item == makeClientPhoto(title, normalized, "url", clientCount + 1)
    IN  /\ mounted
        /\ IF normalized = ""
           THEN /\ addStatus' = [kind |-> "error",
                                 message |-> "Please enter a valid http(s) image URL."]
                /\ UNCHANGED <<photos, selectedTags, addUrl, addTitle, addFile>>
                /\ \E len \in {Len(filteredPhotos)} : Settle(len, activeIndex, len)
           ELSE /\ clientCount < MaxAdded
                /\ photos' = prependPhoto(photos, item)
                /\ selectedTags' = selectUserTag(selectedTags)
                /\ addUrl' = ""
                /\ addTitle' = ""
                /\ addFile' = <<>>
                /\ addStatus' = [kind |-> "success",
                                 message |-> "Added \"" \o item.title
                                                \o "\" from URL (client-only)."]
                /\ Rerender(activeIndex,
                            Len(FilterPhotos(prependPhoto(photos, item), query,
                                             selectUserTag(selectedTags),
                                             favoritesOnly, favoriteIds)))
        /\ UNCHANGED <<query, favoriteIds, favoritesOnly, urlVars, mounted, storageVars>>

\* variant: any chosen file is taken
isImageFileAlways(file) == TRUE

\* addFile.type && addFile.type.startsWith("image/")
isImageFile(file) == file.type # "" /\ startsWith(file.type, "image/")

addImageFromFile ==
    /\ mounted
    /\ IF addFile = <<>>
       THEN /\ addStatus' = [kind |-> "error",
                             message |-> "Please choose a local image file first."]
            /\ UNCHANGED <<photos, selectedTags, addUrl, addTitle, addFile,
                           clientObjectUrls>>
            /\ \E len \in {Len(filteredPhotos)} : Settle(len, activeIndex, len)
       ELSE IF ~isImageFile(addFile[1])
       THEN /\ addStatus' = [kind |-> "error",
                             message |-> "That file does not look like an image. Please choose an image file."]
            /\ UNCHANGED <<photos, selectedTags, addUrl, addTitle, addFile,
                           clientObjectUrls>>
            /\ \E len \in {Len(filteredPhotos)} : Settle(len, activeIndex, len)
       ELSE LET objectUrl == "blob:" \o ToString(Len(clientObjectUrls) + 1)
                title == OrElse(OrElse(trim(addTitle), addFile[1].name), "Local image")
                item == makeClientPhoto(title, objectUrl, "file", clientCount + 1)
            IN  /\ clientCount < MaxAdded
                /\ clientObjectUrls' = Append(clientObjectUrls, objectUrl)
                /\ photos' = prependPhoto(photos, item)
                /\ selectedTags' = selectUserTag(selectedTags)
                /\ addUrl' = ""
                /\ addTitle' = ""
                /\ addFile' = <<>>
                /\ addStatus' = [kind |-> "success",
                                 message |-> "Added \"" \o item.title
                                                \o "\" from local file (client-only)."]
                /\ Rerender(activeIndex,
                            Len(FilterPhotos(prependPhoto(photos, item), query,
                                             selectUserTag(selectedTags),
                                             favoritesOnly, favoriteIds)))
    /\ UNCHANGED <<query, favoriteIds, favoritesOnly, revokedObjectUrls, mounted, storageVars>>

\* onChange of the three inputs and onClick of Clear: no viewer or filter state
\* changes, so the render they cause runs no effect of the viewer
setAddUrl(value) ==
    /\ mounted
    /\ addUrl' = value
    /\ UNCHANGED <<filterVars, addTitle, addFile, addStatus, urlVars, mounted,
                   storageVars, activeIndex, keydownListeners, kbCleanup>>

setAddTitle(value) ==
    /\ mounted
    /\ addTitle' = value
    /\ UNCHANGED <<filterVars, addUrl, addFile, addStatus, urlVars, mounted,
                   storageVars, activeIndex, keydownListeners, kbCleanup>>

setAddFile(file) ==
    /\ mounted
    /\ addFile' = file
    /\ UNCHANGED <<filterVars, addUrl, addTitle, addStatus, urlVars, mounted,
                   storageVars, activeIndex, keydownListeners, kbCleanup>>

\* variant: Clear empties the inputs and leaves the status as it is
clearAddFormKeepsStatus ==
    /\ mounted
    /\ addUrl' = ""
    /\ addTitle' = ""
    /\ addFile' = <<>>
    /\ UNCHANGED <<filterVars, addStatus, urlVars, mounted,
                   storageVars, activeIndex, keydownListeners, kbCleanup>>

clearAddForm ==
    /\ mounted
    /\ addUrl' = ""
    /\ addTitle' = ""
    /\ addFile' = <<>>
    /\ addStatus' = idle
    /\ UNCHANGED <<filterVars, urlVars, mounted,
                   storageVars, activeIndex, keydownListeners, kbCleanup>>

(***************************************************************************)
(* Unmount: every effect's cleanup runs.                                   *)
(***************************************************************************)
\* variant: the last URL of the list is not revoked
revokedAtUnmountButLast(urls) == SubSeq(urls, 1, Len(urls) - 1)

\* the URLs the cleanup passes to URL.revokeObjectURL, in order
revokedAtUnmount(urls) == urls

unmount ==
    /\ mounted
    /\ mounted' = FALSE
    /\ keydownListeners' = IF kbCleanup # <<>>
                           THEN removeEventListener(keydownListeners, kbCleanup[1])
                           ELSE keydownListeners
    /\ kbCleanup' = <<>>
    /\ revokedObjectUrls' = revokedObjectUrls \o revokedAtUnmount(clientObjectUrls)
    /\ clientObjectUrls' = <<>>
    /\ UNCHANGED <<filterVars, formVars, activeIndex, storageVars>>

(***************************************************************************)
(* components/ImageModal.js.  imageModal holds the props of the last       *)
(* render (isOpen, and callbacks: the identity of onClose, onPrev and      *)
(* onNext), document.body.style.overflow, the keydown listeners of window  *)
(* (each the callbacks its closure captured), the cleanup the effect's     *)
(* last run returned, and two histories: page, the overflow the page set   *)
(* last, and event, the last key event with the calls it made.             *)
(***************************************************************************)
NoCalls == [onClose |-> 0, onPrev |-> 0, onNext |-> 0]

\* the component after its first render with isOpen false: the effect returned
\* at once
ImageModalMounted ==
    [isOpen |-> FALSE, callbacks |-> 1, overflow |-> "", listeners |-> <<>>,
     cleanup |-> <<>>, page |-> "",
     event |-> [key |-> "", isOpen |-> FALSE, calls |-> NoCalls]]

\* variant: ArrowLeft is taken for ArrowRight
ImageModalOnKeyDownLeftIsNext(key) ==
    [onClose |-> IF key = "Escape" THEN 1 ELSE 0,
     onPrev |-> 0,
     onNext |-> IF key \in {"ArrowLeft", "ArrowRight"} THEN 1 ELSE 0]

\* onKeyDown of the effect: the calls one listener makes for a key
ImageModalOnKeyDown(key) ==
    [onClose |-> IF key = "Escape" THEN 1 ELSE 0,
     onPrev |-> IF key = "ArrowLeft" THEN 1 ELSE 0,
     onNext |-> IF key = "ArrowRight" THEN 1 ELSE 0]

\* the cleanup the effect returned: removeEventListener and the overflow put back
ImageModalCleanup(m) ==
    IF m.cleanup = <<>> THEN m
    ELSE [m EXCEPT !.listeners = removeEventListener(@, m.cleanup[1].listener),
                   !.overflow = m.cleanup[1].prevOverflow,
                   !.cleanup = <<>>]

\* the effect: nothing when isOpen is false, else the overflow is kept and
\* set to "hidden" and the listener added
ImageModalEffect(m) ==
    IF ~m.isOpen THEN m
    ELSE [m EXCEPT !.cleanup = <<[prevOverflow |-> m.overflow,
                                  listener |-> m.callbacks]>>,
                   !.overflow = "hidden",
                   !.listeners = Append(@, m.callbacks)]

\* a render with the props given; the effect depends on isOpen and the three
\* callbacks
ImageModalRender(isOpen, callbacks) ==
    LET rendered == [imageModal EXCEPT !.isOpen = isOpen, !.callbacks = callbacks]
    IN  imageModal' =
            IF <<isOpen, callbacks>> = <<imageModal.isOpen, imageModal.callbacks>>
            THEN rendered
            ELSE ImageModalEffect(ImageModalCleanup(rendered))

\* a keydown event on window: every listener is called
ImageModalKeyDown(key) ==
    LET n == Len(imageModal.listeners)
        one == ImageModalOnKeyDown(key)
    IN  imageModal' =
            [imageModal EXCEPT !.event =
                [key |-> key, isOpen |-> imageModal.isOpen,
                 calls |-> [onClose |-> n * one.onClose,
                            onPrev |-> n * one.onPrev,
                            onNext |-> n * one.onNext]]]

(***************************************************************************)
(* Inputs of the events.                                                   *)
(***************************************************************************)
QueryInputs == {"", "Sea ", "user"}
TagChoices == {"Nature", "User"}
FavoriteChoices == {"sea"}
UrlInputs == {"https://example.com/a.jpg"}
FileInputs == {[name |-> "cat.png", type |-> "image/png"]}
Keys == {"Escape", "ArrowRight", "ArrowLeft", "Enter"}
KeyTargets == {
    [node |-> "HTMLElement", tagName |-> "BUTTON", isContentEditable |-> FALSE],
    [node |-> "HTMLElement", tagName |-> "INPUT", isContentEditable |-> FALSE],
    [node |-> "HTMLElement", tagName |-> "TEXTAREA", isContentEditable |-> FALSE],
    [node |-> "HTMLElement", tagName |-> "SELECT", isContentEditable |-> FALSE],
    [node |-> "HTMLElement", tagName |-> "DIV", isContentEditable |-> TRUE],
    [node |-> "Document", tagName |-> "", isContentEditable |-> FALSE]}

PageKeyTargets == {t \in KeyTargets : t.tagName \in {"BUTTON", "INPUT"}}

(***************************************************************************)
(* The gallery: the events of the page that reach the viewer, the filter   *)
(* or the photo list.                                                      *)
(***************************************************************************)
\* variant: the sync effect does not run at mount
StartupWithoutSync(entry, throws) ==
    \E favs \in {readFavoritesFromStorage(entry, throws)} :
        /\ favoriteIds = favs
        /\ storageFails = throws
        /\ localStorage = entry
        /\ startup = [entry |-> entry, throws |-> throws, favorites |-> favs,
                      written |-> entry]
        /\ favRun = [id |-> "", len |-> 0, favorites |-> favs, entry |-> entry]

\* The favorites after the first render and its effects: the set is read from
\* the entry found and, by the sync effect, written back.
Startup(entry, throws) ==
    \E favs \in {readFavoritesFromStorage(entry, throws)} :
        \E written \in {writeFavoritesToStorage(favs, entry, throws)} :
            /\ favoriteIds = favs
            /\ storageFails = throws
            /\ localStorage = written
            /\ startup = [entry |-> entry, throws |-> throws, favorites |-> favs,
                          written |-> written]
            /\ favRun = [id |-> "", len |-> 0, favorites |-> favs, entry |-> written]

Init ==
    /\ photos = seededPhotos
    /\ query = ""
    /\ selectedTags = {}
    /\ activeIndex = null
    /\ Startup(<<>>, FALSE)
    /\ favoritesOnly = FALSE
    /\ addUrl = ""
    /\ addTitle = ""
    /\ addFile = <<>>
    /\ addStatus = idle
    /\ clientObjectUrls = <<>>
    /\ revokedObjectUrls = <<>>
    /\ keydownListeners = <<>>
    /\ kbCleanup = <<>>
    /\ mounted = TRUE
    /\ navStart = null
    /\ navSteps = 0
    /\ imageModal = ImageModalMounted

\* a card of the grid
OpenModalAt ==
    \E idx \in 0..(Len(filteredPhotos) - 1) : openModalAt(idx) /\ UNCHANGED histVars

CloseModal == closeModal /\ UNCHANGED histVars

GoPrev == goPrev /\ UNCHANGED histVars

GoNext == goNext /\ UNCHANGED histVars

\* a key pressed on a button or in the search box
KeyDown ==
    \E key \in Keys, target \in PageKeyTargets :
        /\ keydownListeners # <<>>
        /\ keydown(key, target)
        /\ UNCHANGED histVars

SetQuery == \E value \in QueryInputs : setQuery(value) /\ UNCHANGED histVars

\* a chip of the tag filter
ToggleTag ==
    \E tag \in availableTags \cap TagChoices : toggleTag(tag) /\ UNCHANGED histVars

ClearTags == clearTags /\ UNCHANGED histVars

ToggleFavoritesOnly == toggleFavoritesOnly /\ UNCHANGED histVars

\* the heart of a card of the grid
ToggleFavoriteCard ==
    \E i \in 1..Len(filteredPhotos) :
        /\ filteredPhotos[i].id \in FavoriteChoices
        /\ toggleFavorite(filteredPhotos[i].id)
        /\ UNCHANGED histVars

\* the heart of the viewer
ToggleFavoriteViewer ==
    /\ modalOpen
    /\ activePhotoId \in FavoriteChoices \cup {"undefined"}
    /\ toggleFavorite(activePhotoId)
    /\ UNCHANGED histVars

SetAddUrl == \E value \in UrlInputs \cup {""} : setAddUrl(value) /\ UNCHANGED histVars

SetAddFile ==
    \E file \in {<<f>> : f \in FileInputs} \cup {<<>>} :
        setAddFile(file) /\ UNCHANGED histVars

\* the Add URL button is disabled while the URL input is blank
AddImageFromUrl == trim(addUrl) # "" /\ addImageFromUrl /\ UNCHANGED histVars

\* the Add File button is disabled while no file is chosen
AddImageFromFile == addFile # <<>> /\ addImageFromFile /\ UNCHANGED histVars

Unmount == unmount /\ UNCHANGED histVars

Next ==
    \/ OpenModalAt
    \/ CloseModal
    \/ GoPrev
    \/ GoNext
    \/ KeyDown
    \/ SetQuery
    \/ ToggleTag
    \/ ClearTags
    \/ ToggleFavoritesOnly
    \/ ToggleFavoriteCard
    \/ ToggleFavoriteViewer
    \/ SetAddUrl
    \/ SetAddFile
    \/ AddImageFromUrl
    \/ AddImageFromFile
    \/ Unmount

Spec == Init /\ [][Next]_vars

(***************************************************************************)
(* The filter engine on its own: the photo list and the favorites set are  *)
(* drawn from the lists and sets a session can hold, the filter controls   *)
(* are driven through every input.                                         *)
(***************************************************************************)
FilterQueries == {"", "  ", "Sea ", "CALM", "zzz"}
FilterTags == {"Nature", "nature", "User"}
FilterFavorites == {"sea", "client:1:1"}

\* the Sets of ids of FilterFavorites
FilterFavoriteSets ==
    {l \in UNION {[1..k -> FilterFavorites] : k \in 0..Cardinality(FilterFavorites)} :
        \A i \in 1..Len(l) : \A j \in 1..(i - 1) : l[i] # l[j]}

\* the photo list and the tracked object URLs after k successful adds
RECURSIVE SessionsAfter(_)
SessionsAfter(k) ==
    IF k = 0 THEN {[photos |-> seededPhotos, urls |-> <<>>]}
    ELSE LET n == k
         IN  UNION {
               { [photos |-> <<makeClientPhoto("Image from URL",
                                               normalizeHttpUrl("https://example.com/a.jpg"),
                                               "url", n)>> \o s.photos,
                  urls |-> s.urls],
                 [photos |-> <<makeClientPhoto("cat.png",
                                               "blob:" \o ToString(Len(s.urls) + 1),
                                               "file", n)>> \o s.photos,
                  urls |-> Append(s.urls, "blob:" \o ToString(Len(s.urls) + 1))] }
               : s \in SessionsAfter(k - 1) }

Sessions == UNION {SessionsAfter(k) : k \in 0..MaxAdded}

InitFilter ==
    /\ \E s \in Sessions : photos = s.photos /\ clientObjectUrls = s.urls
    /\ \E favs \in FilterFavoriteSets : Startup(<<JSONstringify(favs)>>, FALSE)
    /\ query = ""
    /\ selectedTags = {}
    /\ favoritesOnly = FALSE
    /\ activeIndex = null
    /\ addUrl = ""
    /\ addTitle = ""
    /\ addFile = <<>>
    /\ addStatus = idle
    /\ revokedObjectUrls = <<>>
    /\ keydownListeners = <<>>
    /\ kbCleanup = <<>>
    /\ mounted = TRUE
    /\ navStart = null
    /\ navSteps = 0
    /\ imageModal = ImageModalMounted

FilterSetQuery == \E value \in FilterQueries : setQuery(value) /\ UNCHANGED histVars

FilterToggleTag == \E tag \in FilterTags : toggleTag(tag) /\ UNCHANGED histVars

FilterClearTags == clearTags /\ UNCHANGED histVars

FilterToggleFavoritesOnly == toggleFavoritesOnly /\ UNCHANGED histVars

NextFilter ==
    \/ FilterSetQuery
    \/ FilterToggleTag
    \/ FilterClearTags
    \/ FilterToggleFavoritesOnly

SpecFilter == InitFilter /\ [][NextFilter]_vars

(***************************************************************************)
(* The viewer on its own: the filter is drawn and stays, the viewer is     *)
(* opened, navigated by button and by key, and closed.  navStart and       *)
(* navSteps record the current run of consecutive next or prev operations. *)
(***************************************************************************)
NavTagSelections == {{}, {"Nature"}, {"Urban"}}

InitNav ==
    /\ photos = seededPhotos
    /\ query = ""
    /\ selectedTags \in NavTagSelections
    /\ activeIndex = null
    /\ Startup(<<>>, FALSE)
    /\ favoritesOnly = FALSE
    /\ addUrl = ""
    /\ addTitle = ""
    /\ addFile = <<>>
    /\ addStatus = idle
    /\ clientObjectUrls = <<>>
    /\ revokedObjectUrls = <<>>
    /\ keydownListeners = <<>>
    /\ kbCleanup = <<>>
    /\ mounted = TRUE
    /\ navStart = null
    /\ navSteps = 0
    /\ imageModal = ImageModalMounted

\* the run after one more step in direction dir (1 is next, -1 is prev)
RunStep(dir) ==
    /\ activeIndex # null
    /\ UNCHANGED <<startup, favRun, imageModal>>
    /\ IF navSteps * dir >= 0
       THEN /\ navSteps * dir < MaxSteps
            /\ navStart' = navStart
            /\ navSteps' = navSteps + dir
       ELSE /\ navStart' = activeIndex
            /\ navSteps' = dir

NavOpen ==
    \E idx \in 0..(Len(filteredPhotos) - 1) :
        /\ openModalAt(idx)
        /\ navStart' = idx
        /\ navSteps' = 0
        /\ UNCHANGED <<startup, favRun, imageModal>>

NavClose ==
    closeModal /\ navStart' = null /\ navSteps' = 0 /\ UNCHANGED <<startup, favRun, imageModal>>

NavPrev == goPrev /\ RunStep(-1)

NavNext == goNext /\ RunStep(1)

NavKeyDown ==
    \E key \in Keys, target \in KeyTargets :
        /\ keydownListeners # <<>>
        /\ keydown(key, target)
        /\ IF key = "Escape"
           THEN navStart' = null /\ navSteps' = 0 /\ UNCHANGED <<startup, favRun, imageModal>>
           ELSE IF key = "ArrowRight" /\ ~isTypingContext(target) THEN RunStep(1)
           ELSE IF key = "ArrowLeft" /\ ~isTypingContext(target) THEN RunStep(-1)
           ELSE UNCHANGED histVars

NextNav ==
    \/ NavOpen
    \/ NavClose
    \/ NavPrev
    \/ NavNext
    \/ NavKeyDown

SpecNav == InitNav /\ [][NextNav]_vars

(***************************************************************************)
(* The favorites store on its own: the session starts on a stored entry,   *)
(* hearts are toggled, the favorites-only view is switched, and the        *)
(* browser's storage stops and resumes working.  favRun records the        *)
(* current run of toggles of one id: the id, the number of toggles, and    *)
(* the favorites and the entry at the start of the run.                    *)
(***************************************************************************)
\* entries a session can find, with what they hold: array says that the
\* text is a JSON array, ids are its elements as strings
StoredEntries == {
    [entry |-> <<>>, array |-> FALSE, ids |-> {}],
    [entry |-> <<"">>, array |-> FALSE, ids |-> {}],
    [entry |-> <<"not json">>, array |-> FALSE, ids |-> {}],
    [entry |-> <<"[\"sea\"">>, array |-> FALSE, ids |-> {}],
    [entry |-> <<"{}">>, array |-> FALSE, ids |-> {}],
    [entry |-> <<"\"sea\"">>, array |-> FALSE, ids |-> {}],
    [entry |-> <<"null">>, array |-> FALSE, ids |-> {}],
    [entry |-> <<"[]">>, array |-> TRUE, ids |-> {}],
    [entry |-> <<" [\"forest\", \"sea\"] ">>, array |-> TRUE, ids |-> {"forest", "sea"}],
    [entry |-> <<"[7,\"sea\",null,\"sea\"]">>, array |-> TRUE, ids |-> {"7", "sea", "null"}],
    [entry |-> <<"[\"a\\\"b\"]">>, array |-> TRUE, ids |-> {"a\"b"}]}

HeartChoices == {"sea", "forest"}

InitFavorites ==
    /\ photos = seededPhotos
    /\ query = ""
    /\ selectedTags = {}
    /\ activeIndex = null
    /\ \E e \in StoredEntries, throws \in BOOLEAN : Startup(e.entry, throws)
    /\ favoritesOnly = FALSE
    /\ addUrl = ""
    /\ addTitle = ""
    /\ addFile = <<>>
    /\ addStatus = idle
    /\ clientObjectUrls = <<>>
    /\ revokedObjectUrls = <<>>
    /\ keydownListeners = <<>>
    /\ kbCleanup = <<>>
    /\ mounted = TRUE
    /\ navStart = null
    /\ navSteps = 0
    /\ imageModal = ImageModalMounted

\* the run after one more toggle of id
RunToggle(id) ==
    /\ favRun' = IF favRun.id = id /\ favRun.len < MaxToggles
                 THEN [favRun EXCEPT !.len = @ + 1]
                 ELSE [id |-> id, len |-> 1, favorites |-> favoriteIds,
                       entry |-> localStorage]
    /\ UNCHANGED <<navStart, navSteps, startup, imageModal>>

\* the heart of a card of the grid
FavoritesToggle ==
    \E i \in 1..Len(filteredPhotos) :
        /\ filteredPhotos[i].id \in HeartChoices
        /\ toggleFavorite(filteredPhotos[i].id)
        /\ RunToggle(filteredPhotos[i].id)

FavoritesToggleFavoritesOnly == toggleFavoritesOnly /\ UNCHANGED histVars

\* the storage stops working (quota reached, storage disabled) or works again
StorageChange ==
    /\ mounted
    /\ storageFails' = ~storageFails
    /\ favRun' = [id |-> "", len |-> 0, favorites |-> favoriteIds,
                  entry |-> localStorage]
    /\ UNCHANGED <<filterVars, formVars, urlVars, mounted, localStorage,
                   activeIndex, keydownListeners, kbCleanup,
                   navStart, navSteps, startup, imageModal>>

NextFavorites ==
    \/ FavoritesToggle
    \/ FavoritesToggleFavoritesOnly
    \/ StorageChange

SpecFavorites == InitFavorites /\ [][NextFavorites]_vars

(***************************************************************************)
(* The add-image form on its own: texts are typed into the URL input,      *)
(* files are chosen, and addImageToGallery is applied to every state of    *)
(* the form, those in which its button is disabled included.  The filter,  *)
(* the favorites and the viewer are operated as well, so that images are   *)
(* added, and refused, in every state of the page.                         *)
(***************************************************************************)
\* texts of the URL input; valid says that the text is an http(s) URL
UrlFormInputs == {
    [text |-> "", valid |-> FALSE],
    [text |-> "not a url", valid |-> FALSE],
    [text |-> "javascript:alert(1)", valid |-> FALSE],
    [text |-> "ftp://example.com/a.jpg", valid |-> FALSE],
    [text |-> "https://", valid |-> FALSE],
    [text |-> " https://example.com/a.jpg ", valid |-> TRUE]}

\* files of the file input; image says that the MIME type is an image type
FormFiles == {
    [file |-> [name |-> "cat.png", type |-> "image/png"], image |-> TRUE],
    [file |-> [name |-> "notes.txt", type |-> "text/plain"], image |-> FALSE],
    [file |-> [name |-> "raw.dat", type |-> ""], image |-> FALSE]}

InitForm ==
    /\ photos = seededPhotos
    /\ query = ""
    /\ selectedTags = {}
    /\ activeIndex = null
    /\ Startup(<<"[\"sea\"]">>, FALSE)
    /\ favoritesOnly = FALSE
    /\ addUrl = ""
    /\ addTitle = ""
    /\ addFile = <<>>
    /\ addStatus = idle
    /\ clientObjectUrls = <<>>
    /\ revokedObjectUrls = <<>>
    /\ keydownListeners = <<>>
    /\ kbCleanup = <<>>
    /\ mounted = TRUE
    /\ navStart = null
    /\ navSteps = 0
    /\ imageModal = ImageModalMounted

\* texts of the title input
TitleInputs == {"", " My cat "}

FormSetUrl == \E u \in UrlFormInputs : setAddUrl(u.text) /\ UNCHANGED histVars

FormSetTitle == \E value \in TitleInputs : setAddTitle(value) /\ UNCHANGED histVars

FormSetFile ==
    \E file \in {<<f.file>> : f \in FormFiles} \cup {<<>>} :
        setAddFile(file) /\ UNCHANGED histVars

FormClear == clearAddForm /\ UNCHANGED histVars

FormAddUrl == addImageFromUrl /\ UNCHANGED histVars

FormAddFile == addImageFromFile /\ UNCHANGED histVars

FormToggleTag == toggleTag("Nature") /\ UNCHANGED histVars

FormOpenModal == Len(filteredPhotos) > 0 /\ openModalAt(0) /\ UNCHANGED histVars

FormCloseModal == closeModal /\ UNCHANGED histVars

FormGoNext == modalOpen /\ goNext /\ UNCHANGED histVars

\* the heart of the first card of the grid
FormToggleFavorite ==
    /\ Len(filteredPhotos) > 0
    /\ toggleFavorite(filteredPhotos[1].id)
    /\ UNCHANGED histVars

NextForm ==
    \/ FormSetUrl
    \/ FormSetFile
    \/ FormClear
    \/ FormAddUrl
    \/ FormAddFile
    \/ FormToggleTag
    \/ FormOpenModal
    \/ FormCloseModal
    \/ FormGoNext
    \/ FormToggleFavorite

SpecForm == InitForm /\ [][NextForm]_vars

(***************************************************************************)
(* The inputs of the add-image form: the three inputs are filled, emptied  *)
(* by Clear, and addImageToGallery is applied to every state of them.      *)
(***************************************************************************)
NextInputs ==
    \/ FormSetUrl
    \/ FormSetTitle
    \/ FormSetFile
    \/ FormClear
    \/ FormAddUrl
    \/ FormAddFile

SpecInputs == InitForm /\ [][NextInputs]_vars

(***************************************************************************)
(* The standalone ImageModal: its parent renders it open or closed, with   *)
(* the same or with new callbacks; keys are pressed; while the modal is    *)
(* closed the page sets the overflow of the body.                          *)
(***************************************************************************)
ModalKeys == {"Escape", "ArrowLeft", "ArrowRight", "Enter"}
OverflowValues == {"", "auto", "scroll", "hidden"}
CallbackIdentities == {1, 2}

pageVars == <<filterVars, formVars, urlVars, storageVars, activeIndex,
              keydownListeners, kbCleanup, mounted, navStart, navSteps,
              startup, favRun>>

ModalRender ==
    \E isOpen \in BOOLEAN, callbacks \in CallbackIdentities :
        ImageModalRender(isOpen, callbacks) /\ UNCHANGED pageVars

ModalKeyDown == \E key \in ModalKeys : ImageModalKeyDown(key) /\ UNCHANGED pageVars

ModalSetOverflow ==
    \E value \in OverflowValues :
        /\ ~imageModal.isOpen
        /\ imageModal' = [imageModal EXCEPT !.overflow = value, !.page = value]
        /\ UNCHANGED pageVars

NextModal ==
    \/ ModalRender
    \/ ModalKeyDown
    \/ ModalSetOverflow

SpecModal == Init /\ [][NextModal]_vars

(***************************************************************************)
(* Properties.                                                             *)
(***************************************************************************)
\* the filtered list of the state a step leads to
filteredPhotosNext ==
    FilterPhotos(photos', query', selectedTags', favoritesOnly', favoriteIds')

\* C1: the viewer is closed or open at an index of the filtered list, so the
\* photo shown is defined.
ViewerIndexValid ==
    \/ activeIndex = null
    \/ /\ activeIndex \in 0..(Len(filteredPhotos) - 1)
       /\ activePhoto # <<>>

\* the viewer is open at the last photo of a list that a filter has cut
ViewerIndexValidWitness ==
    /\ activeIndex # null
    /\ activeIndex = Len(filteredPhotos) - 1
    /\ Len(filteredPhotos) < Len(photos)
    /\ clientCount > 0

\* C2: a step that changes the filter and leaves a filtered list of length
\* <= i while the viewer is open at i ends with the viewer closed.
FilterShrinkClosesViewer ==
    [][(/\ activeIndex # null
        /\ <<query, selectedTags, favoritesOnly, favoriteIds>>'
              # <<query, selectedTags, favoritesOnly, favoriteIds>>
        /\ Len(filteredPhotosNext) <= activeIndex)
       => activeIndex' = null]_vars

\* the viewer is open at an index that the query "Sea " or the favorites-only
\* view would put out of range
FilterShrinkClosesViewerWitness ==
    /\ activeIndex # null
    /\ \/ Len(FilterPhotos(photos, "Sea ", selectedTags, favoritesOnly,
                           favoriteIds)) <= activeIndex
       \/ Len(FilterPhotos(photos, query, selectedTags, TRUE, favoriteIds))
             <= activeIndex

\* the records of ps at the positions kept, in the order of ps
SubsequenceAt(ps, kept) ==
    [k \in 1..Cardinality(kept) |->
        ps[CHOOSE i \in kept : Cardinality({j \in kept : j < i}) = k - 1]]

\* the texts a query is searched in
SearchTexts(p) ==
    {p.title, p.caption, p.photographer, p.id, join(p.tags, " "),
     join([i \in 1..Len(p.metadata) |->
             p.metadata[i][1] \o ":" \o p.metadata[i][2]], " ")}

ContainsText(p, text) ==
    \E field \in SearchTexts(p) : includes(toLowerCase(field), toLowerCase(text))

InFavoritesView(p) == ~favoritesOnly \/ p.id \in Range(favoriteIds)

HasSelectedTag(p) == selectedTags = {} \/ Range(p.tags) \cap selectedTags # {}

\* C3 as stated: the filtered list is the subsequence of the records that are
\* in the favorites view, contain the lower-cased query (or the query is
\* absent) and have a selected tag.
FilterIsSubsequenceAsStated ==
    filteredPhotos = SubsequenceAt(photos, {i \in 1..Len(photos) :
        /\ InFavoritesView(photos[i])
        /\ (query = "" \/ ContainsText(photos[i], query))
        /\ HasSelectedTag(photos[i])})

\* C3 amended: the same with the query trimmed of leading and trailing
\* white space, a query of white space only counting as absent.
FilterIsSubsequence ==
    filteredPhotos = SubsequenceAt(photos, {i \in 1..Len(photos) :
        /\ InFavoritesView(photos[i])
        /\ (trim(query) = "" \/ ContainsText(photos[i], trim(query)))
        /\ HasSelectedTag(photos[i])})

\* all three predicates are active and keep some records but not all
FilterIsSubsequenceWitness ==
    /\ favoritesOnly
    /\ trim(query) # ""
    /\ selectedTags # {}
    /\ Len(filteredPhotos) \in 1..(Len(photos) - 1)

\* C4: with an empty query, no selected tag and favorites-only off the
\* filtered list is the photo list.
NoFilterShowsAll ==
    (query = "" /\ selectedTags = {} /\ ~favoritesOnly) => filteredPhotos = photos

\* no filter is set, there are favorites and a client-added record
NoFilterShowsAllWitness ==
    /\ query = "" /\ selectedTags = {} /\ ~favoritesOnly
    /\ favoriteIds # <<>>
    /\ clientCount > 0
    /\ Len(filteredPhotos) = Len(photos)

\* C5 as stated: a query that no record's texts contain gives the empty list.
UnmatchedQueryShowsNothingAsStated ==
    (\A i \in 1..Len(photos) : ~ContainsText(photos[i], query))
        => filteredPhotos = <<>>

\* C5 amended: a query whose trimmed form no record's texts contain gives the
\* empty list.
UnmatchedQueryShowsNothing ==
    (\A i \in 1..Len(photos) : ~ContainsText(photos[i], trim(query)))
        => filteredPhotos = <<>>

\* an unmatched query, with a tag selected that records carry
UnmatchedQueryShowsNothingWitness ==
    /\ \A i \in 1..Len(photos) : ~ContainsText(photos[i], trim(query))
    /\ \E i \in 1..Len(photos) : Range(photos[i].tags) \cap selectedTags # {}
    /\ filteredPhotos = <<>>

\* C6: with selected tags, an empty query and favorites-only off, a record is
\* shown exactly if one of its tags is, character for character, selected.
TagFilterIsExact ==
    (selectedTags # {} /\ query = "" /\ ~favoritesOnly)
        => /\ \A i \in 1..Len(photos) :
                (\E k \in 1..Len(filteredPhotos) : filteredPhotos[k] = photos[i])
                    <=> (\E t \in 1..Len(photos[i].tags) :
                            \E sel \in selectedTags : photos[i].tags[t] = sel)
           /\ Len(filteredPhotos) <= Len(photos)

\* only "nature" is selected and the records tagged "Nature" are not shown
TagFilterIsExactWitness ==
    /\ selectedTags = {"nature"} /\ query = "" /\ ~favoritesOnly
    /\ \E i \in 1..Len(photos) : "Nature" \in Range(photos[i].tags)
    /\ filteredPhotos = <<>>

\* C7: the viewer starts closed; open(i) leaves it open at i, close leaves it
\* closed, prev and next move an open viewer by one, clamped to the list, and
\* leave a closed viewer closed.
ViewerStateMachine ==
    /\ activeIndex = null
    /\ [][/\ \A i \in 0..(Len(filteredPhotos) - 1) :
                activeIndex' = i \/ ~openModalAt(i)
          /\ activeIndex' = null \/ ~closeModal
          /\ activeIndex' = (IF activeIndex = null THEN null
                             ELSE Max(activeIndex - 1, 0))
                \/ ~goPrev
          /\ activeIndex' = (IF activeIndex = null THEN null
                             ELSE Min(activeIndex + 1, Len(filteredPhotos) - 1))
                \/ ~goNext]_vars

\* the viewer is open past the first photo of a list cut by a filter
ViewerStateMachineWitness ==
    /\ activeIndex # null
    /\ activeIndex > 0
    /\ Len(filteredPhotos) < Len(photos)
    /\ keydownListeners # <<>>

\* C8: a run of k next (prev) operations from index i leaves the viewer open
\* at min(i + k, n - 1) (at max(i - k, 0)).
NavigationClamps ==
    navStart # null =>
        /\ activeIndex # null
        /\ activeIndex = IF navSteps >= 0
                         THEN Min(navStart + navSteps, Len(filteredPhotos) - 1)
                         ELSE Max(navStart + navSteps, 0)

\* opened at 0, nine times next, five photos: the index is 4
NavigationClampsWitness ==
    /\ navStart = 0
    /\ navSteps = 9
    /\ Len(filteredPhotos) = 5
    /\ activeIndex = 4

\* the typing contexts: input, textarea, select, contenteditable
TypingTarget(target) ==
    \/ target.tagName \in {"INPUT", "TEXTAREA", "SELECT"}
    \/ target.isContentEditable

\* C9: while the viewer is open Escape closes it from any target, the arrows
\* act as next and prev outside a typing context and not at all inside one,
\* any other key changes nothing.
KeyboardShortcuts ==
    [][\A key \in Keys, target \in KeyTargets :
        \/ activeIndex = null
        \/ activeIndex' =
                (IF key = "Escape" THEN null
                 ELSE IF key = "ArrowRight" /\ ~TypingTarget(target)
                 THEN Min(activeIndex + 1, Len(filteredPhotos) - 1)
                 ELSE IF key = "ArrowLeft" /\ ~TypingTarget(target)
                 THEN Max(activeIndex - 1, 0)
                 ELSE activeIndex)
        \/ ~keydown(key, target)]_vars

\* the viewer is open in the middle of the list, its listener registered
KeyboardShortcutsWitness ==
    /\ activeIndex \in 1..(Len(filteredPhotos) - 2)
    /\ keydownListeners = <<Len(filteredPhotos)>>

\* C10: one keydown listener is registered while the viewer is open and
\* mounted, none otherwise.
ListenerOnlyWhileOpen ==
    Len(keydownListeners) = IF mounted /\ activeIndex # null THEN 1 ELSE 0

\* the viewer is open and its listener was registered again for a list of
\* another length
ListenerOnlyWhileOpenWitness ==
    /\ mounted
    /\ activeIndex # null
    /\ Len(filteredPhotos) # Len(photos)
    /\ keydownListeners = <<Len(filteredPhotos)>>

\* the ids of a Set
Ids(set) == {set[i] : i \in 1..Len(set)}

\* the ids the entry holds, as the startup read takes them
EntryIds(entry) == Ids(readFavoritesFromStorage(entry, FALSE))

\* the favorites differ from those at the start of the run in favRun.id
\* exactly, after an odd number of toggles, and in nothing after an even one
RunFlipsOneId ==
    \A id \in Ids(favoriteIds) \cup Ids(favRun.favorites) \cup {favRun.id} :
        (id \in Ids(favoriteIds)) =
            (IF id = favRun.id /\ favRun.len % 2 = 1
             THEN id \notin Ids(favRun.favorites)
             ELSE id \in Ids(favRun.favorites))

\* C11 as stated: a toggle flips the membership of its id and of no other,
\* two toggles of one id restore the set, and after them the entry holds the
\* ids of the set.
FavoriteToggleInvolutionAsStated ==
    favRun.len > 0 =>
        /\ RunFlipsOneId
        /\ Len(favoriteIds) = Cardinality(Ids(favoriteIds))
        /\ favRun.len = 2 =>
            /\ Ids(favoriteIds) = Ids(favRun.favorites)
            /\ EntryIds(localStorage) = Ids(favoriteIds)

\* C11 amended: the same, the entry holding the ids of the set when the
\* storage can be written.
FavoriteToggleInvolution ==
    favRun.len > 0 =>
        /\ RunFlipsOneId
        /\ Len(favoriteIds) = Cardinality(Ids(favoriteIds))
        /\ favRun.len = 2 =>
            /\ Ids(favoriteIds) = Ids(favRun.favorites)
            /\ ~storageFails => EntryIds(localStorage) = Ids(favoriteIds)

\* "sea" was toggled twice while "forest" is a favorite, and the entry was
\* written
FavoriteToggleInvolutionWitness ==
    /\ favRun.id = "sea"
    /\ favRun.len = 2
    /\ "forest" \in Ids(favoriteIds)
    /\ ~storageFails
    /\ localStorage # favRun.entry

\* C12: after a change of the favorites whose write succeeded the entry is
\* the JSON array of the ids of the set, each once.
FavoritesWrittenThrough ==
    (favRun.len > 0 /\ ~storageFails) =>
        /\ localStorage # <<>>
        /\ JSONparse(localStorage[1]).kind = "array"
        /\ Ids(JSONparse(localStorage[1]).items) = Ids(favoriteIds)
        /\ Len(JSONparse(localStorage[1]).items) = Len(favoriteIds)

\* the last favorite was removed and the entry written
FavoritesWrittenThroughWitness ==
    /\ favRun.len > 0
    /\ ~storageFails
    /\ favoriteIds = <<>>
    /\ favRun.favorites # <<>>
    /\ localStorage = <<"[]">>

\* C13: toggles made while the storage fails change the set as they do when
\* it works; the list shown and the count come from the set, the entry stays,
\* and no error is shown.
StorageFailureSwallowed ==
    (storageFails /\ favRun.len > 0) =>
        /\ RunFlipsOneId
        /\ favoritesCount = Cardinality(Ids(favoriteIds))
        /\ favoritesOnly =>
              filteredPhotos = SelectSeq(photos, LAMBDA p : p.id \in Ids(favoriteIds))
        /\ localStorage = favRun.entry
        /\ addStatus.kind # "error"
        /\ mounted

\* a favorite added while the storage fails is shown in the favorites-only
\* view, the entry not holding it
StorageFailureSwallowedWitness ==
    /\ storageFails
    /\ favRun.len = 1
    /\ favoritesOnly
    /\ favRun.id \in Ids(favoriteIds)
    /\ favRun.id \notin EntryIds(localStorage)
    /\ \E i \in 1..Len(filteredPhotos) : filteredPhotos[i].id = favRun.id

\* C14: the startup read gives the empty set when the read throws or the
\* entry is missing, empty or no JSON array, else the elements of the array
\* as strings.
StartupReadTolerant ==
    \A e \in StoredEntries :
        e.entry = startup.entry =>
            /\ Ids(startup.favorites) =
                  (IF startup.throws \/ ~e.array THEN {} ELSE e.ids)
            /\ Len(startup.favorites) = Cardinality(Ids(startup.favorites))

\* the session started on an array holding a number, null and a repeated id,
\* and "forest" was added to the set read
StartupReadTolerantWitness ==
    /\ startup.entry = <<"[7,\"sea\",null,\"sea\"]">>
    /\ ~startup.throws
    /\ startup.favorites = <<"7", "sea", "null">>
    /\ favoriteIds = <<"7", "sea", "null", "forest">>

\* C15: add by URL with a text that is empty, malformed or of another scheme
\* than http(s) leaves an error with a message and changes neither the photo
\* list, the selected tags, the viewer nor the favorites.
UrlAddRejected ==
    [][\A u \in UrlFormInputs :
        \/ u.valid
        \/ addUrl # u.text
        \/ /\ addStatus'.kind = "error"
           /\ addStatus'.message # ""
           /\ photos' = photos
           /\ selectedTags' = selectedTags
           /\ activeIndex' = activeIndex
           /\ keydownListeners' = keydownListeners
           /\ favoriteIds' = favoriteIds
        \/ ~addImageFromUrl]_vars

\* a script-scheme text was rejected while the viewer is open and a tag selected
UrlAddRejectedWitness ==
    /\ addUrl = "javascript:alert(1)"
    /\ addStatus = [kind |-> "error",
                    message |-> "Please enter a valid http(s) image URL."]
    /\ activeIndex # null
    /\ selectedTags # {}
    /\ favoriteIds # <<>>

\* C16: add by file with no file chosen, or a file whose type is empty or no
\* image type, leaves an error, creates and tracks no object URL and changes
\* neither the photo list nor the selected tags.
FileAddRejected ==
    [][\/ \E f \in FormFiles : f.image /\ addFile = <<f.file>>
       \/ /\ addStatus'.kind = "error"
          /\ clientObjectUrls' = clientObjectUrls
          /\ photos' = photos
          /\ selectedTags' = selectedTags
       \/ ~addImageFromFile]_vars

\* a file without a type was rejected after an image file had been added
FileAddRejectedWitness ==
    /\ addFile = <<[name |-> "raw.dat", type |-> ""]>>
    /\ addStatus.kind = "error"
    /\ clientObjectUrls # <<>>
    /\ selectedTags # {}

\* the records of the photo list that were added, and those that were seeded
ClientRecords == SubSeq(photos, 1, clientCount)

SeedRecords == SubSeq(photos, clientCount + 1, Len(photos))

NewRecordUnderUserTag ==
    [][photos' # photos =>
          /\ "User" \in Range(photos'[1].tags)
          /\ "User" \in selectedTags'
          /\ "User" \in availableTags'
          /\ selectedTags \subseteq selectedTags'
          /\ matchesTags(photos'[1], selectedTags' # {}, selectedTags')]_vars

\* a record was added while "Nature" was selected: both tags are selected and
\* the record is first in the list shown
NewRecordUnderUserTagWitness ==
    /\ clientCount > 0
    /\ selectedTags = {"Nature", "User"}
    /\ addStatus.kind = "success"
    /\ filteredPhotos # <<>>
    /\ filteredPhotos[1] = photos[1]

\* the object URLs made for the files added, oldest first
CreatedObjectUrls ==
    [k \in 1..Cardinality({i \in 1..clientCount : startsWith(photos[i].fullUrl, "blob:")}) |->
        "blob:" \o ToString(k)]

TagToggleInvolution ==
    /\ [](\A tag \in FilterTags :
            toggleTagUpdate(toggleTagUpdate(selectedTags, tag), tag) = selectedTags)
    /\ [][\A tag \in FilterTags :
            \/ /\ (tag \in selectedTags') = (tag \notin selectedTags)
               /\ selectedTags' \ {tag} = selectedTags \ {tag}
               /\ <<query, favoritesOnly, favoriteIds, photos>>'
                     = <<query, favoritesOnly, favoriteIds, photos>>
            \/ ~toggleTag(tag)]_vars

\* "Nature" and "User" are selected, a query and the favorites-only view set
TagToggleInvolutionWitness ==
    /\ selectedTags = {"Nature", "User"}
    /\ query # ""
    /\ favoritesOnly
    /\ favoriteIds # <<>>
    /\ clientCount > 0

ViewerIndexKept ==
    [][\/ activeIndex = null
       \/ filterVars' = filterVars
       \/ activeIndex' = (IF Len(filteredPhotosNext) > activeIndex
                          THEN activeIndex ELSE null)]_vars

\* the viewer is open at index 0 on the record added, which the query "user"
\* leaves alone in the list
ViewerIndexKeptWitness ==
    /\ activeIndex = 0
    /\ clientCount > 0
    /\ query = "user"
    /\ filteredPhotos = <<photos[1]>>
    /\ activePhoto = <<photos[1]>>
    /\ keydownListeners # <<>>

\* the two outcomes of an add-image attempt
AddAccepted ==
    /\ Len(photos') = Len(photos) + 1
    /\ SubSeq(photos', 2, Len(photos')) = photos
    /\ addStatus'.kind = "success"
    /\ addUrl' = ""
    /\ addTitle' = ""
    /\ addFile' = <<>>

AddRejected ==
    /\ photos' = photos
    /\ addStatus'.kind = "error"
    /\ <<addUrl, addTitle, addFile>>' = <<addUrl, addTitle, addFile>>

\* C23: an add by URL of an http(s) text and an add by file of an image file
\* prepend a record, leave the status "success" and empty the three inputs;
\* every other add attempt leaves the status "error" and the photo list and
\* the inputs as they were; Clear empties the inputs and sets the status to
\* "idle" without changing the photo list.
AddStatusTellsOutcome ==
    [][/\ \A u \in UrlFormInputs :
            \/ addUrl # u.text
            \/ IF u.valid THEN AddAccepted ELSE AddRejected
            \/ ~addImageFromUrl
       /\ \/ addFile # <<>>
          \/ AddRejected
          \/ ~addImageFromFile
       /\ \A f \in FormFiles :
            \/ addFile # <<f.file>>
            \/ IF f.image THEN AddAccepted ELSE AddRejected
            \/ ~addImageFromFile
       /\ \/ /\ <<addUrl, addTitle, addFile>>' = <<"", "", <<>> >>
             /\ addStatus' = [kind |-> "idle", message |-> ""]
             /\ photos' = photos
          \/ ~clearAddForm]_vars

\* a record was added under the title typed, and a later attempt with a text
\* that is no URL was rejected with the three inputs filled
AddStatusTellsOutcomeWitness ==
    /\ clientCount > 0
    /\ photos[1].title = "My cat"
    /\ addStatus.kind = "error"
    /\ addUrl = "not a url"
    /\ addTitle = " My cat "
    /\ addFile = <<[name |-> "notes.txt", type |-> "text/plain"]>>

\* the ids of the records of the photo list
PhotoIds == {photos[i].id : i \in 1..Len(photos)}

\* C24: in a session started without a stored entry, the favorites set and
\* the stored entry hold only ids of records of the photo list; "undefined"
\* is never among them.
FavoritesAreRecords ==
    /\ Ids(favoriteIds) \subseteq PhotoIds
    /\ EntryIds(localStorage) \subseteq PhotoIds
    /\ "undefined" \notin Ids(favoriteIds) \cup EntryIds(localStorage)

\* the viewer shows the only favorite under the favorites-only view, after an
\* add: its heart would empty the list the viewer is open on
FavoritesAreRecordsWitness ==
    /\ startup.entry = <<>>
    /\ favoritesOnly
    /\ modalOpen
    /\ activePhotoId = "sea"
    /\ favoriteIds = <<"sea">>
    /\ localStorage = <<"[\"sea\"]">>
    /\ filteredPhotos = <<activePhoto[1]>>
    /\ clientCount > 0

\* C25: every selected tag is an available tag, the tag of some record of the
\* photo list, so that a chip shows it and can deselect it.
SelectedTagsAvailable ==
    /\ selectedTags \subseteq availableTags
    /\ \A tag \in selectedTags : \E i \in 1..Len(photos) : tag \in Range(photos[i].tags)

\* a seed tag and the tag of an added record are selected together
SelectedTagsAvailableWitness ==
    /\ selectedTags = {"Nature", "User"}
    /\ clientCount > 0
    /\ "User" \in Range(photos[1].tags)
    /\ \A i \in 2..Len(photos) : "User" \notin Range(photos[i].tags)

\* the photos shown under the selection tags, the rest of the filter as it is
ShownUnder(tags) ==
    Range(FilterPhotos(photos, query, tags, favoritesOnly, favoriteIds))

\* C26: for the photo list, query, favorites-only flag and favorites set of
\* the state, every photo shown under a non-empty selection S is shown under
\* every selection that includes S, and every photo shown under a non-empty
\* selection is shown under the empty one.
WideningNeverHides ==
    LET lists == {[tags |-> tags, shown |-> ShownUnder(tags)] :
                     tags \in SUBSET FilterTags}
    IN  \A wide \in lists, narrow \in lists :
            /\ (narrow.tags # {} /\ narrow.tags \subseteq wide.tags)
                  => narrow.shown \subseteq wide.shown
            /\ wide.tags = {} => narrow.shown \subseteq wide.shown

\* "Nature" and "User" are selected: fewer photos are shown than under no
\* selection and more than under "Nature" alone
WideningNeverHidesWitness ==
    /\ selectedTags = {"Nature", "User"}
    /\ ShownUnder({"Nature"}) # ShownUnder(selectedTags)
    /\ ShownUnder({"User"}) # ShownUnder(selectedTags)
    /\ ShownUnder({}) # ShownUnder(selectedTags)
    /\ ShownUnder({"Nature"}) # {}

\* texts of white space only
BlankQueries == {" ", "  ", "\t", " \n "}

\* C27: under the tag selection and favorites setting of the state, a query
\* of white space only gives the filtered list of the empty query, and the
\* query of the state gives the same list with white space put before and
\* after it.
BlankQueryIsNoQuery ==
    \A blank \in BlankQueries :
        /\ FilterPhotos(photos, blank, selectedTags, favoritesOnly, favoriteIds)
              = FilterPhotos(photos, "", selectedTags, favoritesOnly, favoriteIds)
        /\ FilterPhotos(photos, blank \o query \o blank, selectedTags,
                        favoritesOnly, favoriteIds) = filteredPhotos

\* the query is two blanks, and a tag and the favorites-only view cut the list
BlankQueryIsNoQueryWitness ==
    /\ query = "  "
    /\ selectedTags = {"Nature"}
    /\ favoritesOnly
    /\ filteredPhotos # <<>>
    /\ Len(filteredPhotos) < Len(photos)
    /\ clientCount > 0

\* C28: when the storage can be written, the entry the mount leaves is the
\* JSON text of the set read: "[]" for an entry that is missing, empty or no
\* JSON array, and for an array a text whose elements are those of the array;
\* when it cannot be written, the entry is left as found.
MountWritesBack ==
    \A e \in StoredEntries :
        \/ e.entry # startup.entry
        \/ IF startup.throws THEN startup.written = startup.entry
           ELSE /\ startup.written = <<JSONstringify(startup.favorites)>>
                /\ ~e.array => startup.written = <<"[]">>
                /\ e.array => EntryIds(startup.written) = e.ids

\* the session found a text that is no JSON and the storage, after a switch
\* of the favorites-only view, holds what the mount left: the empty array
MountWritesBackWitness ==
    /\ startup.entry = <<"not json">>
    /\ ~startup.throws
    /\ startup.written = <<"[]">>
    /\ localStorage = startup.written
    /\ favoriteIds = <<>>
    /\ favoritesOnly
    /\ favRun.len = 0

\* C29: the last key event, if the modal was open, called the callback of its
\* key once (onClose for Escape, onPrev for ArrowLeft, onNext for ArrowRight)
\* and no other, and if the modal was closed called none; a closed modal has
\* no listener and leaves the body the overflow it had before the modal was
\* opened.
ModalKeysAndOverflow ==
    /\ imageModal.event.calls =
          [onClose |-> IF imageModal.event.isOpen /\ imageModal.event.key = "Escape"
                       THEN 1 ELSE 0,
           onPrev |-> IF imageModal.event.isOpen /\ imageModal.event.key = "ArrowLeft"
                      THEN 1 ELSE 0,
           onNext |-> IF imageModal.event.isOpen /\ imageModal.event.key = "ArrowRight"
                      THEN 1 ELSE 0]
    /\ ~imageModal.isOpen =>
          /\ imageModal.listeners = <<>>
          /\ imageModal.overflow = imageModal.page

\* ArrowLeft was pressed while the modal was open on new callbacks; the modal
\* is closed again and the body scrolls as before
ModalKeysAndOverflowWitness ==
    /\ imageModal.event.key = "ArrowLeft"
    /\ imageModal.event.isOpen
    /\ imageModal.event.calls.onPrev = 1
    /\ ~imageModal.isOpen
    /\ imageModal.callbacks = 2
    /\ imageModal.page = "scroll"
    /\ imageModal.overflow = "scroll"

====
